---- MODULE Spec2Model ----
(***************************************************************************)
(* sha256rng.c: a byte stream generator that hashes an accumulating pool.  *)
(* The program state is the pool (a buffer of pool_size bytes, of which    *)
(* the first pool_use are written and the first pool_cursor are emitted),  *)
(* the argument list still to be pooled, the byte limit and the position   *)
(* of main.  Every C function is an operator from generator record to      *)
(* generator record; main's steps are the actions.                         *)
(***************************************************************************)
EXTENDS Integers, Sequences, FiniteSets, TLC

(***************************************************************************)
(* Bounds of the model.                                                    *)
(***************************************************************************)
\* width in bits of size_t and of long long
SizeBits == 11
\* at most this many seed arguments on the command line
MaxSeeds == 2
\* main's loop is followed for at most this many emitted bytes
MaxOut == 330

(***************************************************************************)
(* Program constants.                                                      *)
(***************************************************************************)
\* SHA256_DIGEST_LENGTH
min_sz == 32

SIZE_MAX == 2^SizeBits - 1

LLONG_MAX == 2^(SizeBits - 1) - 1

LLONG_MIN == 0 - 2^(SizeBits - 1)

\* a - b in size_t arithmetic
USub(a, b) == (a - b) % (SIZE_MAX + 1)

\* a + b in size_t arithmetic
UAdd(a, b) == (a + b) % (SIZE_MAX + 1)

\* a * b in size_t arithmetic
UMul(a, b) == (a * b) % (SIZE_MAX + 1)

\* the conversion of a size_t to long long (two's complement)
ToLongLong(u) == IF u > LLONG_MAX THEN u - (SIZE_MAX + 1) ELSE u

(***************************************************************************)
(* The digest.  SHA256() is an external function: a fixed, deterministic   *)
(* map from a byte sequence to min_sz bytes.  It is stood for by a small   *)
(* tree hash over the bytes and the length, spread over min_sz bytes.       *)
(***************************************************************************)
\* a hash of s[lo..hi], combined pairwise over halves (order-sensitive)
RECURSIVE HashAcc(_, _, _)
HashAcc(s, lo, hi) ==
    IF lo > hi THEN 7
    ELSE IF lo = hi THEN s[lo] + 1
    ELSE LET mid == (lo + hi) \div 2
         IN  (HashAcc(s, lo, mid) * 131 + HashAcc(s, mid + 1, hi) * 31 + 17)
                 % 65521

SHA256(s) ==
    LET h == (HashAcc(s, 1, Len(s)) + 131 * Len(s)) % 65521
    IN  [i \in 1..min_sz |-> (h * (2 * i + 1) + (h \div 256) + i * i) % 256]

(***************************************************************************)
(* C strings are sequences of character codes.                             *)
(***************************************************************************)
StrA == <<97>>
StrB == <<98>>
SeedStrings == {StrA, StrB}

\* getenv's result when the variable is not set (no string holds a 0 byte)
NULL == <<0>>

\* "", "0", "1", "31", "32", "33", "320"
LimitEnvs ==
    { NULL, <<>>, <<48>>, <<49>>, <<51, 49>>, <<51, 50>>, <<51, 51>>,
      <<51, 50, 48>> }

\* values of SHA256RNG_LIMIT that are no non-negative number:
\* "abc", "-1", "12x"
BadLimitEnvs == { <<97, 98, 99>>, <<45, 49>>, <<49, 50, 120>> }

IsSpace(c) == c = 32 \/ (c >= 9 /\ c <= 13)

IsDigit(c) == c >= 48 /\ c <= 57

\* the digits of s from position i on, accumulated onto acc
RECURSIVE AtollDigits(_, _, _)
AtollDigits(s, i, acc) ==
    IF i > Len(s) \/ ~IsDigit(s[i]) THEN acc
    ELSE AtollDigits(s, i + 1, acc * 10 + (s[i] - 48))

RECURSIVE SkipSpace(_, _)
SkipSpace(s, i) ==
    IF i <= Len(s) /\ IsSpace(s[i]) THEN SkipSpace(s, i + 1) ELSE i

\* atoll: blanks, an optional sign, then digits up to the first non-digit
atoll(s) ==
    LET i == SkipSpace(s, 1)
        neg == i <= Len(s) /\ s[i] = 45
        j == IF i <= Len(s) /\ (s[i] = 45 \/ s[i] = 43) THEN i + 1 ELSE i
        v == AtollDigits(s, j, 0)
    IN  IF neg THEN 0 - v ELSE v

(***************************************************************************)
(* The outcomes of realloc: failure, or a block whose new bytes hold       *)
(* whatever the allocator left there.                                      *)
(***************************************************************************)
OOM == -1
FillBytes == {0, 165}
ReallocOutcomes == {OOM} \cup FillBytes

(***************************************************************************)
(* The generator: the globals of sha256rng.c, the bytes written to stdout, *)
(* the process status, and history variables.                              *)
(*   hist   every byte ever appended to the pool, in order                 *)
(*   log    one entry per digest appended: its kind and its input length   *)
(*   grows  number of successful reallocs                                  *)
(*   shifts number of shift_pool calls                                     *)
(*   room   pool_size - pool_use when prepare_pool last returned           *)
(*   avail  pool_use - pool_cursor at the last fwrite                      *)
(*   iters  executions of the body of prepare_pool's while loop            *)
(*   wr_oob a digest was written past the end of the buffer                *)
(*   rd_oob fwrite read outside the buffer                                 *)
(*   cp_bad memcpy read outside the buffer or its ranges overlapped        *)
(*   size0  pool_size at program start                                     *)
(*   err    what abort's caller printed to stderr ("" while running)       *)
(*   tries  number of realloc calls                                        *)
(*   room0  pool_size - pool_use when prepare_pool was last entered        *)
(*   size1  pool_size when prepare_pool was last entered                   *)
(*   unread0, log0, out0   pool_use - pool_cursor, the number of digests   *)
(*          appended and of bytes written when consume was last entered    *)
(*   rev    (second run only) the arguments are given in reverse order     *)
(***************************************************************************)
NewPool(size, fill) ==
    [ pool |-> [i \in 1..size |-> fill],
      pool_size |-> size,
      pool_use |-> 0,
      pool_cursor |-> 0,
      out |-> <<>>,
      aborted |-> FALSE,
      hist |-> <<>>,
      log |-> <<>>,
      grows |-> 0,
      shifts |-> 0,
      room |-> -1,
      avail |-> -1,
      iters |-> 0,
      wr_oob |-> FALSE,
      rd_oob |-> FALSE,
      cp_bad |-> FALSE,
      size0 |-> size,
      err |-> "",
      tries |-> 0,
      room0 |-> -1,
      size1 |-> -1,
      unread0 |-> -1,
      log0 |-> 0,
      out0 |-> 0,
      rev |-> FALSE ]

\* the while loop of prepare_pool: <<final increment, body executions>>
\* (a doubling wraps to 0 after at most SizeBits executions, where it stops)
RECURSIVE IncrementLoop(_, _, _)
IncrementLoop(increment, size, n) ==
    IF increment < size /\ SIZE_MAX - increment < size /\ n < SizeBits
    THEN IncrementLoop(UMul(increment, 2), size, n + 1)
    ELSE <<increment, n>>

\* prepare_pool that returns as soon as any room is left
prepare_pool_any(g, r) ==
    IF USub(g.pool_size, g.pool_use) > 0
    THEN [g EXCEPT !.room = USub(g.pool_size, g.pool_use)]
    ELSE IF r = OOM
    THEN [g EXCEPT !.aborted = TRUE]
    ELSE [g EXCEPT
            !.pool = @ \o [i \in 1..min_sz |-> r],
            !.pool_size = UAdd(@, min_sz),
            !.grows = @ + 1,
            !.room = USub(UAdd(g.pool_size, min_sz), g.pool_use)]

\* prepare_pool without the test for the overflow of pool_size + min_sz
prepare_pool_nosize(g, r) ==
    IF USub(g.pool_size, g.pool_use) > min_sz
    THEN [g EXCEPT !.room = USub(g.pool_size, g.pool_use),
                   !.room0 = USub(g.pool_size, g.pool_use),
                   !.size1 = g.pool_size]
    ELSE IF r = OOM
    THEN [g EXCEPT !.aborted = TRUE, !.err = "out of memory",
                   !.tries = @ + 1,
                   !.room0 = USub(g.pool_size, g.pool_use),
                   !.size1 = g.pool_size]
    ELSE [g EXCEPT
            !.pool = @ \o [i \in 1..min_sz |-> r],
            !.pool_size = UAdd(@, min_sz),
            !.grows = @ + 1,
            !.tries = @ + 1,
            !.room = USub(UAdd(g.pool_size, min_sz), g.pool_use),
            !.room0 = USub(g.pool_size, g.pool_use),
            !.size1 = g.pool_size]

\* prepare_pool that goes on after realloc has returned NULL
prepare_pool_nocheck(g, r) ==
    IF USub(g.pool_size, g.pool_use) > min_sz
    THEN [g EXCEPT !.room = USub(g.pool_size, g.pool_use),
                   !.room0 = USub(g.pool_size, g.pool_use),
                   !.size1 = g.pool_size]
    ELSE IF SIZE_MAX - min_sz < g.pool_size
    THEN [g EXCEPT !.aborted = TRUE, !.err = "out of size",
                   !.room0 = USub(g.pool_size, g.pool_use),
                   !.size1 = g.pool_size]
    ELSE [g EXCEPT
            !.pool = IF r = OOM THEN @ ELSE @ \o [i \in 1..min_sz |-> r],
            !.pool_size = UAdd(@, min_sz),
            !.grows = IF r = OOM THEN @ ELSE @ + 1,
            !.tries = @ + 1,
            !.room = USub(UAdd(g.pool_size, min_sz), g.pool_use),
            !.room0 = USub(g.pool_size, g.pool_use),
            !.size1 = g.pool_size]

\* the entry of prepare_pool, noted in the history variables
Entered(g) ==
    [g EXCEPT !.room0 = USub(g.pool_size, g.pool_use), !.size1 = g.pool_size]

\* prepare_pool that enlarges the pool by the increment it has computed
prepare_pool_incr(g, r) ==
    IF USub(g.pool_size, g.pool_use) > min_sz
    THEN [Entered(g) EXCEPT !.room = USub(g.pool_size, g.pool_use)]
    ELSE IF SIZE_MAX - min_sz < g.pool_size
    THEN [Entered(g) EXCEPT !.aborted = TRUE, !.err = "out of size"]
    ELSE LET increment == IF g.pool_size # 0 THEN min_sz
                          ELSE UMul(min_sz, min_sz)
             loop == IncrementLoop(increment, g.pool_size, 0)
         IN  IF r = OOM
             THEN [Entered(g) EXCEPT
                     !.aborted = TRUE,
                     !.err = "out of memory",
                     !.tries = @ + 1,
                     !.iters = @ + loop[2]]
             ELSE [Entered(g) EXCEPT
                     !.pool = @ \o [i \in 1..loop[1] |-> r],
                     !.pool_size = UAdd(@, loop[1]),
                     !.grows = @ + 1,
                     !.tries = @ + 1,
                     !.iters = @ + loop[2],
                     !.room = USub(UAdd(g.pool_size, loop[1]), g.pool_use)]

prepare_pool(g, r) ==
    IF USub(g.pool_size, g.pool_use) > min_sz
    THEN [Entered(g) EXCEPT !.room = USub(g.pool_size, g.pool_use)]
    ELSE IF SIZE_MAX - min_sz < g.pool_size
    THEN [Entered(g) EXCEPT !.aborted = TRUE, !.err = "out of size"]
    ELSE LET increment == IF g.pool_size # 0 THEN min_sz
                          ELSE UMul(min_sz, min_sz)
             loop == IncrementLoop(increment, g.pool_size, 0)
         IN  IF r = OOM
             THEN [Entered(g) EXCEPT
                     !.aborted = TRUE,
                     !.err = "out of memory",
                     !.tries = @ + 1,
                     !.iters = @ + loop[2]]
             ELSE [Entered(g) EXCEPT
                     !.pool = @ \o [i \in 1..min_sz |-> r],
                     !.pool_size = UAdd(@, min_sz),
                     !.grows = @ + 1,
                     !.tries = @ + 1,
                     !.iters = @ + loop[2],
                     !.room = USub(UAdd(g.pool_size, min_sz), g.pool_use)]

\* the digest d written at pool + pool_use
WriteDigest(g, d, kind, n) ==
    [g EXCEPT
       !.pool = [i \in 1..Len(@) |->
                   IF i > g.pool_use /\ i <= g.pool_use + min_sz
                   THEN d[i - g.pool_use] ELSE @[i]],
       !.pool_use = UAdd(@, min_sz),
       !.hist = @ \o d,
       !.log = Append(@, [kind |-> kind, n |-> n]),
       !.wr_oob = @ \/ g.pool_use + min_sz > Len(g.pool)]

\* shift_pool that copies from one byte past the cursor
shift_pool_skip(g) ==
    [g EXCEPT
       !.pool = [i \in 1..Len(@) |->
                   IF g.pool_cursor + 1 + i <= Len(@)
                   THEN @[g.pool_cursor + 1 + i] ELSE @[i]],
       !.pool_use = USub(@, g.pool_cursor),
       !.pool_cursor = 0,
       !.shifts = @ + 1]

\* shift_pool without pool_use -= pool_cursor
shift_pool_keepuse(g) ==
    [g EXCEPT
       !.pool = [i \in 1..Len(@) |->
                   IF g.pool_cursor + i <= Len(@)
                   THEN @[g.pool_cursor + i] ELSE @[i]],
       !.pool_cursor = 0,
       !.shifts = @ + 1]

shift_pool(g) ==
    LET n == USub(g.pool_size, g.pool_cursor)
    IN  [g EXCEPT
           !.pool = [i \in 1..Len(@) |->
                       IF i <= n /\ g.pool_cursor + i <= Len(@)
                       THEN @[g.pool_cursor + i] ELSE @[i]],
           !.pool_use = USub(@, g.pool_cursor),
           !.pool_cursor = 0,
           !.shifts = @ + 1,
           !.cp_bad = @ \/ n > g.pool_cursor \/ g.pool_cursor + n > Len(g.pool)]

\* the n bytes at pool (a byte outside the buffer reads as 0)
PoolBytes(g, n) == [i \in 1..n |-> IF i <= Len(g.pool) THEN g.pool[i] ELSE 0]

\* repool with the digest taken over the whole buffer, not its used part
repool_whole(g, r) ==
    LET p == prepare_pool(g, r)
    IN  IF p.aborted THEN p
        ELSE WriteDigest(p, SHA256(PoolBytes(p, p.pool_size)),
                         "ext", p.pool_use)

repool(g, r) ==
    LET p == prepare_pool(g, r)
    IN  IF p.aborted THEN p
        ELSE WriteDigest(p, SHA256(PoolBytes(p, p.pool_use)),
                         "ext", p.pool_use)

\* pool_str with the digest taken over no byte of the argument
pool_str_nolen(g, arg, r) ==
    LET p == prepare_pool(g, r)
    IN  IF p.aborted THEN p
        ELSE WriteDigest(p, SHA256(<<>>), "seed", 0)

\* pool_str that writes the digest at pool, not at pool + pool_use
pool_str_front(g, arg, r) ==
    LET p == prepare_pool(g, r)
    IN  IF p.aborted THEN p
        ELSE [WriteDigest([p EXCEPT !.pool_use = 0], SHA256(arg),
                          "seed", Len(arg))
                EXCEPT !.pool_use = UAdd(p.pool_use, min_sz)]

pool_str(g, arg, r) ==
    LET p == prepare_pool(g, r)
    IN  IF p.aborted THEN p
        ELSE WriteDigest(p, SHA256(arg), "seed", Len(arg))

\* fwrite(pool + (pool_cursor++), 1, 1, stdout)
WriteByte(g) ==
    [g EXCEPT
       !.out = Append(@, IF g.pool_cursor < Len(g.pool)
                         THEN g.pool[g.pool_cursor + 1] ELSE 0),
       !.pool_cursor = UAdd(@, 1),
       !.avail = USub(g.pool_use, g.pool_cursor),
       !.rd_oob = @ \/ g.pool_cursor >= Len(g.pool)]

\* the entry of consume, noted in the history variables of the result p
AtEntry(g, p) ==
    [p EXCEPT
       !.unread0 = USub(g.pool_use, g.pool_cursor),
       !.log0 = Len(g.log),
       !.out0 = Len(g.out)]

\* limit-- : the values the counter may hold afterwards.  Decrementing
\* LLONG_MIN is a signed overflow: the counter wraps, or the program traps.
PostDecrement(l) ==
    IF l > LLONG_MIN THEN {[limit |-> l - 1, trap |-> FALSE]}
    ELSE {[limit |-> LLONG_MAX, trap |-> FALSE], [limit |-> l, trap |-> TRUE]}

\* the test written as pool_use - pool_cursor < min_sz/2
ConsumeTest_half(g) == USub(g.pool_use, g.pool_cursor) < min_sz \div 2

\* the test written as pool_use - pool_cursor < 1
ConsumeTest_one(g) == USub(g.pool_use, g.pool_cursor) < 1

\* the test written as pool_use < pool_cursor
ConsumeTest_less(g) == g.pool_use < g.pool_cursor

\* if (pool_use - pool_cursor < min_sz)
ConsumeTest(g) == USub(g.pool_use, g.pool_cursor) < min_sz

\* the test written as pool_cursor > pool_size/4
ShiftTest_quarter(g) == g.pool_cursor > g.pool_size \div 4

\* the test written as pool_cursor > pool_size
ShiftTest_whole(g) == g.pool_cursor > g.pool_size

\* the test written as pool_cursor >= pool_size/2
ShiftTest_ge(g) == g.pool_cursor >= g.pool_size \div 2

\* if (pool_cursor > pool_size/2)
ShiftTest(g) == g.pool_cursor > g.pool_size \div 2

\* the test written as while (--limit)
LimitTest_pre(l) == l - 1 # 0

\* while (limit--)
LimitTest(l) == l # 0

(***************************************************************************)
(* main.  pc is the position of the program: "start" before the argument   *)
(* test, "args" inside the pool_str loop, "limit" before the limit is      *)
(* read, "loop" at the test of the consume loop, "consume", "fwrite" and   *)
(* "shift" at the three statements of consume, "done" after the return     *)
(* from main, "aborted" after abort() and "trapped" after an overflow trap.*)
(* cap is how many written bytes the run is followed for.                  *)
(*                                                                         *)
(* twin is a second generator that is given the same arguments and does    *)
(* the same steps with its own realloc results; it exists only when paired *)
(* holds, and may start with a pool that is already allocated.  It is what *)
(* statements about two runs are stated on.                                *)
(***************************************************************************)
VARIABLES gen, argc, argv, arg0, limit_env, limit, pc, twin, paired, cap

vars == <<gen, argc, argv, arg0, limit_env, limit, pc, twin, paired, cap>>

ArgLists == UNION { [1..n -> SeedStrings] : n \in 0..MaxSeeds }

\* a pool so large that MaxOut bytes need neither a realloc nor a shift
PreSized == 2 * MaxOut + (MaxSeeds + 2) * min_sz

TwinSizes == {0, 2 * min_sz, 4 * min_sz, PreSized}

\* not set, and "33"
TwinEnvs == {NULL, <<51, 51>>}

\* the entry of main with one of the given argument lists
InitArgs(lists) ==
    /\ gen = NewPool(0, 0)
    /\ arg0 \in lists
    /\ argv = arg0
    /\ argc = Len(arg0) + 1
    /\ limit = 0
    /\ pc = "start"

InitMain == InitArgs(ArgLists)

Init ==
    /\ InitMain
    /\ limit_env \in LimitEnvs \cup BadLimitEnvs
    /\ paired = FALSE
    /\ twin = NewPool(0, 0)
    /\ cap = MaxOut

InitTwin ==
    /\ InitMain
    /\ limit_env \in TwinEnvs
    /\ paired = TRUE
    /\ \E size \in TwinSizes, fill \in FillBytes : twin = NewPool(size, fill)
    /\ cap = MaxOut

\* the second run is given the arguments of the first in reverse order
InitSwap ==
    /\ InitMain
    /\ limit_env \in TwinEnvs
    /\ paired = TRUE
    /\ twin = [NewPool(0, 0) EXCEPT !.rev = TRUE]
    /\ cap = MaxOut

\* enough written bytes for the counter to go from -1 through the overflow
\* back down to 0
LongRun == SIZE_MAX + 1

\* runs without a byte limit, followed for LongRun bytes
InitLong ==
    /\ InitMain
    /\ limit_env \in {NULL, <<>>}
    /\ arg0 = IF limit_env = NULL THEN <<>> ELSE <<StrA>>
    /\ paired = FALSE
    /\ twin = NewPool(0, 0)
    /\ cap = LongRun

\* so many arguments that their digests fill all of a size_t
ManySeeds == (SIZE_MAX + 1) \div min_sz

\* no argument, one too few to overflow pool_size, and just enough
BigLists == { [i \in 1..n |-> StrA] : n \in {0, ManySeeds - 1, ManySeeds} }

\* runs on very long argument lists
InitBig ==
    /\ InitArgs(BigLists)
    /\ limit_env \in TwinEnvs
    /\ paired = FALSE
    /\ twin = NewPool(0, 0)
    /\ cap = MaxOut

\* main without the repool() of the argc == 1 case
MainRepool_none ==
    /\ pc = "start"
    /\ argc = 1
    /\ pc' = "limit"
    /\ UNCHANGED <<gen, argc, argv, arg0, limit_env, limit, twin, paired, cap>>

\* if (argc == 1) repool();
MainRepool ==
    /\ pc = "start"
    /\ argc = 1
    /\ \E r \in ReallocOutcomes : gen' = repool(gen, r)
    /\ \E r \in FillBytes : twin' = IF paired THEN repool(twin, r) ELSE twin
    /\ pc' = IF gen'.aborted THEN "aborted" ELSE "limit"
    /\ UNCHANGED <<argc, argv, arg0, limit_env, limit, paired, cap>>

\* else while (--argc) pool_str(*(++argv));   one iteration
MainPoolStr ==
    /\ pc \in {"start", "args"}
    /\ argc - 1 # 0
    /\ argc' = argc - 1
    /\ argv' = Tail(argv)
    /\ \E r \in ReallocOutcomes : gen' = pool_str(gen, Head(argv), r)
    /\ \E r \in FillBytes :
          twin' = IF paired
                  THEN pool_str(twin, IF twin.rev THEN arg0[Len(argv)]
                                      ELSE Head(argv), r)
                  ELSE twin
    /\ pc' = IF gen'.aborted THEN "aborted" ELSE "args"
    /\ UNCHANGED <<arg0, limit_env, limit, paired, cap>>

\* the while (--argc) loop left while one argument is still to be pooled
MainArgsDone_early ==
    /\ pc = "args"
    /\ argc - 2 = 0
    /\ argc' = argc - 1
    /\ pc' = "limit"
    /\ UNCHANGED <<gen, argv, arg0, limit_env, limit, twin, paired, cap>>

\* the exit of the while (--argc) loop
MainArgsDone ==
    /\ pc = "args"
    /\ argc - 1 = 0
    /\ argc' = argc - 1
    /\ pc' = "limit"
    /\ UNCHANGED <<gen, argv, arg0, limit_env, limit, twin, paired, cap>>

\* long long limit = SIZE_MAX; and the SHA256RNG_LIMIT override
MainLimit ==
    /\ pc = "limit"
    /\ limit' = IF limit_env # NULL /\ limit_env # <<>>
                THEN atoll(limit_env) ELSE ToLongLong(SIZE_MAX)
    /\ pc' = "loop"
    /\ UNCHANGED <<gen, argc, argv, arg0, limit_env, twin, paired, cap>>

\* while (limit--): the test holds and consume is called
MainLoop ==
    /\ pc = "loop"
    /\ LimitTest(limit)
    /\ Len(gen.out) < cap
    /\ \E d \in PostDecrement(limit) :
          /\ limit' = d.limit
          /\ pc' = IF d.trap THEN "trapped" ELSE "consume"
    /\ UNCHANGED <<gen, argc, argv, arg0, limit_env, twin, paired, cap>>

\* while (limit--): the test fails and main returns
MainExit ==
    /\ pc = "loop"
    /\ ~LimitTest(limit)
    /\ limit' = limit - 1
    /\ pc' = "done"
    /\ UNCHANGED <<gen, argc, argv, arg0, limit_env, twin, paired, cap>>

\* consume: if (pool_use - pool_cursor < min_sz) repool();
ConsumeRepool ==
    /\ pc = "consume"
    /\ \E r \in ReallocOutcomes :
          gen' = AtEntry(gen, IF ConsumeTest(gen) THEN repool(gen, r) ELSE gen)
    /\ \E r \in FillBytes :
          twin' = IF paired
                  THEN AtEntry(twin, IF ConsumeTest(twin) THEN repool(twin, r)
                                     ELSE twin)
                  ELSE twin
    /\ pc' = IF gen'.aborted THEN "aborted" ELSE "fwrite"
    /\ UNCHANGED <<argc, argv, arg0, limit_env, limit, paired, cap>>

\* consume: fwrite(pool + (pool_cursor++), sizeof(uchar), 1, stdout);
ConsumeWrite ==
    /\ pc = "fwrite"
    /\ gen' = WriteByte(gen)
    /\ twin' = IF paired THEN WriteByte(twin) ELSE twin
    /\ pc' = "shift"
    /\ UNCHANGED <<argc, argv, arg0, limit_env, limit, paired, cap>>

\* consume: if (pool_cursor > pool_size/2) shift_pool();
ConsumeShift ==
    /\ pc = "shift"
    /\ gen' = IF ShiftTest(gen) THEN shift_pool(gen) ELSE gen
    /\ twin' = IF paired /\ ShiftTest(twin) THEN shift_pool(twin) ELSE twin
    /\ pc' = "loop"
    /\ UNCHANGED <<argc, argv, arg0, limit_env, limit, paired, cap>>

Next ==
    \/ MainRepool
    \/ MainPoolStr
    \/ MainArgsDone
    \/ MainLimit
    \/ MainLoop
    \/ MainExit
    \/ ConsumeRepool
    \/ ConsumeWrite
    \/ ConsumeShift

\* one run of the program
Spec == Init /\ [][Next]_vars

\* two runs of the program on the same arguments, without a byte limit
SpecTwin == InitTwin /\ [][Next]_vars

\* one run of the program without a byte limit, followed past the overflow
\* of the counter
SpecLong == InitLong /\ [][Next]_vars

\* two runs of the program, the second on the reversed argument list
SpecSwap == InitSwap /\ [][Next]_vars

\* one run of the program on very long argument lists
SpecBig == InitBig /\ [][Next]_vars

(***************************************************************************)
(* Properties.                                                             *)
(***************************************************************************)
D == min_sz

Min(a, b) == IF a < b THEN a ELSE b

\* two byte sequences are equal at every position both have
Agree(a, b) == \A k \in 1..Min(Len(a), Len(b)) : a[k] = b[k]

\* main has finished seeding (the pool_str loop or the initial repool)
Seeded == pc \in {"limit", "loop", "consume", "fwrite", "shift", "done"}

\* the two runs got different bytes from realloc somewhere
FillsDiffer == gen.pool # twin.pool

\* C1: two runs of the program on the same arguments (both starting with
\* an empty pool, each with its own realloc results) have written the same
\* byte at every position both have written.
Determinism ==
    (paired /\ twin.size0 = gen.size0) => Agree(gen.out, twin.out)

Determinism_witness ==
    /\ paired
    /\ twin.size0 = gen.size0
    /\ Len(gen.out) > 3 * D
    /\ Len(twin.out) = Len(gen.out)
    /\ gen.shifts >= 1
    /\ FillsDiffer

\* C2: the bytes written to stdout are, in order, the first bytes ever
\* appended to the pool: the k-th byte out is the k-th byte appended.
NoRepeatNoSkip == gen.out = SubSeq(gen.hist, 1, Len(gen.out))

NoRepeatNoSkip_witness ==
    /\ gen.shifts >= 3
    /\ gen.grows >= 3
    /\ Len(gen.out) > 4 * D
    /\ gen.out = SubSeq(gen.hist, 1, Len(gen.out))

\* the digest appended last
LastBlock(g) == SubSeq(g.hist, Len(g.hist) - D + 1, Len(g.hist))

\* the n bytes appended before the digest appended last
LastInput(g, n) == SubSeq(g.hist, Len(g.hist) - D - n + 1, Len(g.hist) - D)

\* C3: every digest appended by repool is the digest of all the bytes
\* appended before it, whether emitted, shifted away or not.
FullHistoryDigest ==
    (gen.log # <<>> /\ gen.log[Len(gen.log)].kind = "ext")
        => LastBlock(gen) = SHA256(LastInput(gen, Len(gen.hist) - D))

\* the digests of the arguments, in argument order
RECURSIVE SeedDigests(_)
SeedDigests(args) ==
    IF args = <<>> THEN <<>>
    ELSE SHA256(Head(args)) \o SeedDigests(Tail(args))

\* C4: with n >= 1 arguments the first n*D bytes written are the digests
\* of the arguments in argument order, and the first n digests appended are
\* the ones of pool_str, every later one a repool digest.
SeedsFirst ==
    (Len(arg0) >= 1 /\ Seeded) =>
        /\ Agree(gen.out, SeedDigests(arg0))
        /\ Len(gen.log) >= Len(arg0)
        /\ \A j \in 1..Len(gen.log) :
              gen.log[j].kind = (IF j <= Len(arg0) THEN "seed" ELSE "ext")

SeedsFirst_witness ==
    /\ Len(arg0) = 2
    /\ arg0[1] # arg0[2]
    /\ gen.shifts >= 1
    /\ Len(gen.out) > 2 * D
    /\ SubSeq(gen.out, 1, 2 * D) = SHA256(arg0[1]) \o SHA256(arg0[2])

\* C5: the run that starts with an empty pool writes the same bytes as a
\* run whose pool is allocated larger than ever needed, and has called
\* realloc successfully before its first byte.
GrowthCorrect ==
    /\ (paired /\ twin.size0 = PreSized) => Agree(gen.out, twin.out)
    /\ gen.out # <<>> => gen.grows >= 1

\* C6: the bytes written do not depend on when shift_pool runs: a run
\* that shifts at other cursor values, or never, writes the same bytes.
CompactionIndependent == paired => Agree(gen.out, twin.out)

\* the limit that each value of SHA256RNG_LIMIT asks for
ConfiguredLimit ==
    [e \in LimitEnvs \ {NULL, <<>>} |->
        CASE e = <<48>> -> 0
          [] e = <<49>> -> 1
          [] e = <<51, 49>> -> D - 1
          [] e = <<51, 50>> -> D
          [] e = <<51, 51>> -> D + 1
          [] e = <<51, 50, 48>> -> 10 * D]

\* C7: with a limit of K bytes the program never writes more than K bytes,
\* returns from main only after exactly K, and at the loop test the counter
\* holds the number of bytes still to write.
LimitEnforced ==
    (limit_env \in DOMAIN ConfiguredLimit) =>
        LET K == ConfiguredLimit[limit_env]
        IN  /\ Len(gen.out) <= K
            /\ pc = "done" => Len(gen.out) = K
            /\ pc = "loop" => limit = K - Len(gen.out)

LimitEnforced_witness ==
    /\ limit_env = <<51, 50, 48>>
    /\ pc = "done"
    /\ Len(gen.out) = 10 * D

\* C8: 0 <= pool_cursor <= pool_use <= pool_size in every state, the
\* states between the statements of consume included.
PoolInvariant ==
    /\ 0 <= gen.pool_cursor
    /\ gen.pool_cursor <= gen.pool_use
    /\ gen.pool_use <= gen.pool_size
    /\ gen.pool_size = Len(gen.pool)

PoolInvariant_witness ==
    /\ pc = "shift"
    /\ ShiftTest(gen)
    /\ gen.pool_cursor < gen.pool_use
    /\ gen.pool_use < gen.pool_size
    /\ gen.shifts >= 1
    /\ gen.grows >= 3

\* C9: whenever prepare_pool has returned, pool_size - pool_use was at
\* least D, and no digest was ever written past the end of the buffer.
RoomForDigest ==
    /\ gen.log # <<>> => gen.room >= D
    /\ ~gen.wr_oob

RoomForDigest_witness ==
    /\ gen.room = D
    /\ gen.pool_use = gen.pool_size
    /\ gen.grows >= 2
    /\ gen.log[Len(gen.log)].kind = "ext"

Reverse(s) == [i \in 1..Len(s) |-> s[Len(s) + 1 - i]]

\* C11: a run on a list of arguments and a run on the same arguments in
\* another order (here the reverse, which differs from the list) have
\* written different bytes once both have written the argument digests.
OrderSensitive ==
    ( /\ paired
      /\ twin.rev
      /\ Reverse(arg0) # arg0
      /\ SHA256(StrA) # SHA256(StrB)
      /\ Len(gen.out) >= Len(arg0) * D
      /\ Len(twin.out) >= Len(arg0) * D )
    => SubSeq(gen.out, 1, Len(arg0) * D) # SubSeq(twin.out, 1, Len(arg0) * D)

OrderSensitive_witness ==
    /\ paired
    /\ twin.rev
    /\ arg0 = <<StrA, StrB>>
    /\ Len(gen.out) > 3 * D
    /\ Len(twin.out) = Len(gen.out)
    /\ gen.out # twin.out
    /\ SubSeq(twin.out, 1, D) = SHA256(StrB)

\* C12: with SHA256RNG_LIMIT not set or empty the counter is never 0 at the
\* loop test and the program stops neither by returning from main nor by
\* itself in any other way than abort() on a failed allocation.
Unbounded ==
    (limit_env \in {NULL, <<>>}) =>
        /\ pc = "loop" => limit # 0
        /\ pc # "done"
        /\ pc # "trapped"

\* C13: with a value of SHA256RNG_LIMIT that is no non-negative number
\* ("abc", "-1", "12x") the program runs without a limit: at the loop test
\* the counter is the one of the unlimited run, and main does not return.
\* (The program has no way to refuse to start.)
MalformedLimit ==
    (limit_env \in BadLimitEnvs) =>
        /\ pc = "loop" => limit = ToLongLong(SIZE_MAX) - Len(gen.out)
        /\ pc # "done"

\* C14: pool_size never wraps: it is the start size plus D per successful
\* realloc, as an integer, and fits a size_t; and whenever prepare_pool was
\* entered without room to spare and pool_size + D beyond SIZE_MAX, the
\* program has aborted with "out of size", pool_size is what it was on
\* entry and realloc was not called (every call of realloc so far succeeded).
SizeOverflowFatal ==
    /\ gen.pool_size = gen.size0 + D * gen.grows
    /\ gen.pool_size <= SIZE_MAX
    /\ Len(gen.pool) = gen.pool_size
    /\ (gen.room0 # -1 /\ gen.room0 <= D /\ gen.size1 + D > SIZE_MAX) =>
          /\ gen.aborted
          /\ pc = "aborted"
          /\ gen.err = "out of size"
          /\ gen.pool_size = gen.size1
          /\ gen.tries = gen.grows
    /\ gen.err = "out of size" => gen.size1 + D > SIZE_MAX

SizeOverflowFatal_witness ==
    /\ gen.err = "out of size"
    /\ pc = "aborted"
    /\ gen.size1 = SIZE_MAX + 1 - D
    /\ gen.grows = ManySeeds - 1
    /\ gen.tries = gen.grows
    /\ Len(gen.log) = ManySeeds - 1

\* the buffer and its three marks
Marks(g) == <<g.pool, g.pool_size, g.pool_use, g.pool_cursor>>

\* C15: a step in which realloc fails ends in the aborted state with "out
\* of memory": the step writes no digest and no byte and leaves the buffer
\* and its marks as they were, the bytes written so far are those of a run
\* in which no allocation fails, and no step is ever taken from the aborted
\* state.
AllocFailureFatal ==
    [][ /\ (gen'.tries # gen.tries /\ gen'.grows = gen.grows) =>
              /\ gen'.aborted
              /\ gen'.err = "out of memory"
              /\ pc' = "aborted"
              /\ Marks(gen') = Marks(gen)
              /\ gen'.log = gen.log
              /\ gen'.hist = gen.hist
              /\ gen'.out = gen.out
              /\ gen'.out = SubSeq(gen'.hist, 1, Len(gen'.out))
              /\ (paired /\ twin.size0 = 0) => Agree(gen'.out, twin'.out)
        /\ pc # "aborted"
        /\ ~gen.aborted
      ]_vars

AllocFailureFatal_witness ==
    /\ pc = "aborted"
    /\ gen.err = "out of memory"
    /\ gen.tries = gen.grows + 1
    /\ gen.shifts >= 1
    /\ Len(gen.out) > 2 * D
    /\ paired
    /\ twin.size0 = 0
    /\ Len(twin.log) = Len(gen.log) + 1

\* C16: the first successful realloc, from pool_size 0, makes pool_size at
\* least D*D, and each later one adds at least D.
GrowthPolicy ==
    (gen.size0 = 0 /\ gen.grows >= 1) =>
        gen.pool_size >= D * D + D * (gen.grows - 1)

\* the run of g is about to call prepare_pool (from repool or pool_str)
PrepEntry(g) ==
    \/ pc = "consume" /\ ConsumeTest(g)
    \/ pc \in {"start", "args"} /\ argc - 1 # 0
    \/ pc = "start" /\ argc = 1

ExtendsWhenEmpty ==
    pc = "fwrite" =>
        /\ Len(gen.log) = gen.log0 + 1 <=> gen.unread0 < 1
        /\ Len(gen.log) = gen.log0 <=> gen.unread0 >= 1

\* C18, amended: consume calls repool once before its fwrite exactly when it
\* is entered with pool_use - pool_cursor < D, and writes its byte without
\* a repool when it is entered with D unread bytes or more.
ExtendsWhenLow ==
    pc = "fwrite" =>
        /\ Len(gen.out) = gen.out0
        /\ Len(gen.log) = gen.log0 + 1 <=> gen.unread0 < D
        /\ Len(gen.log) = gen.log0 <=> gen.unread0 >= D

ExtendsWhenLow_witness ==
    /\ pc = "fwrite"
    /\ gen.unread0 = D - 1
    /\ Len(gen.log) = gen.log0 + 1
    /\ gen.log[Len(gen.log)].kind = "ext"
    /\ gen.pool_use - gen.pool_cursor = 2 * D - 1
    /\ gen.shifts >= 1

\* C19: a step that calls shift_pool with pool_cursor = c puts the bytes
\* pool[c .. pool_use) at pool[0 .. pool_use - c) in the same order, sets
\* pool_cursor to 0, takes c off pool_use and leaves pool_size and the
\* allocation as they are; as many bytes are unread after it as before.
CompactionFrame ==
    [][ gen'.shifts # gen.shifts =>
            LET c == gen.pool_cursor
            IN  /\ gen'.shifts = gen.shifts + 1
                /\ gen'.pool_cursor = 0
                /\ gen'.pool_use = gen.pool_use - c
                /\ gen'.pool_size = gen.pool_size
                /\ Len(gen'.pool) = Len(gen.pool)
                /\ \A i \in 1..(gen.pool_use - c) :
                      gen'.pool[i] = gen.pool[c + i]
                /\ gen'.pool_use - gen'.pool_cursor
                      = gen.pool_use - gen.pool_cursor
                /\ gen'.out = gen.out
                /\ gen'.hist = gen.hist
      ]_vars

CompactionFrame_witness ==
    /\ pc = "loop"
    /\ gen.shifts >= 2
    /\ gen.pool_cursor = 0
    /\ gen.pool_use >= D - 1
    /\ gen.pool_use < gen.pool_size
    /\ SubSeq(gen.pool, 1, gen.pool_use)
          = SubSeq(gen.hist, Len(gen.out) + 1, Len(gen.hist))

\* C20: shift_pool is called only in the last step of consume, after the
\* fwrite of the same call, and there exactly when pool_cursor >
\* pool_size/2; so 2 * pool_cursor >= pool_size at every call, and the
\* steps of the repool and of the fwrite of a consume call shift nothing.
CompactionLast ==
    [][ /\ gen'.shifts # gen.shifts =>
              /\ pc = "shift"
              /\ pc' = "loop"
              /\ Len(gen.out) = gen.out0 + 1
              /\ gen.pool_cursor > gen.pool_size \div 2
              /\ 2 * gen.pool_cursor >= gen.pool_size
        /\ (pc = "shift" /\ gen.pool_cursor > gen.pool_size \div 2) =>
              gen'.shifts = gen.shifts + 1
        /\ pc \in {"consume", "fwrite"} => gen'.shifts = gen.shifts
      ]_vars

CompactionLast_witness ==
    /\ pc = "loop"
    /\ gen.shifts >= 3
    /\ gen.pool_cursor = 0
    /\ Len(gen.out) = gen.out0 + 1
    /\ gen.grows >= 3

\* the stage of the generator at position p of main: 0 not yet seeded
\* (before and inside the seeding statement), 1 seeded, 2 streaming (in the
\* consume loop), 3 terminated (returned from main), 4 stopped by abort()
\* or by a trap, which can end the process at any stage
PhaseOf(p) ==
    CASE p \in {"start", "args"} -> 0
      [] p = "limit" -> 1
      [] p \in {"loop", "consume", "fwrite", "shift"} -> 2
      [] p = "done" -> 3
      [] OTHER -> 4

\* the number of argument digests appended so far
SeedCount(g) == Cardinality({j \in 1..Len(g.log) : g.log[j].kind = "seed"})

\* C21: every step of the program stays in its stage or moves to the next
\* one (not seeded, seeded, streaming, terminated), unless it ends the
\* process; no step is taken from the terminated state; on reaching the
\* seeded stage every argument has been pooled (or the empty pool has been
\* repooled once); a byte is written only by a step of the streaming stage;
\* no argument is pooled from the seeded stage on; and pool_size, once
\* above 0, stays above 0.
Lifecycle ==
    [][ /\ PhaseOf(pc') \in {PhaseOf(pc), PhaseOf(pc) + 1, 4}
        /\ PhaseOf(pc) \notin {3, 4}
        /\ PhaseOf(pc') \in 1..3 =>
              /\ SeedCount(gen') = Len(arg0)
              /\ argv' = <<>>
              /\ Len(gen'.log) >= 1
              /\ gen'.pool_size > 0
        /\ gen'.out # gen.out => PhaseOf(pc) = 2 /\ PhaseOf(pc') = 2
        /\ PhaseOf(pc) = 0 => gen'.out = <<>>
        /\ PhaseOf(pc) >= 1 => SeedCount(gen') = SeedCount(gen)
        /\ gen.pool_size > 0 => gen'.pool_size >= gen.pool_size
      ]_vars

Lifecycle_witness ==
    /\ pc = "done"
    /\ Len(arg0) = 2
    /\ SeedCount(gen) = 2
    /\ Len(gen.log) > 4
    /\ gen.shifts >= 2
    /\ gen.out # <<>>

\* C22: no step makes pool_size smaller; in a run with no or one argument
\* pool_size is at most 5*D after every step, and from the 130th written
\* byte on it is 4*D with no further realloc, up to the last byte the run
\* is followed for.  That no realloc can follow, however long the run, is
\* in the last two conjuncts: consume is entered with pool_cursor at most
\* pool_size/2, so a repool from consume, entered with less than D unread
\* bytes, finds more than D free bytes once pool_size is 4*D or more.
CapacityBounded ==
    [][ /\ gen'.pool_size >= gen.pool_size
        /\ Len(arg0) <= 1 => gen'.pool_size <= 5 * D
        /\ (Len(arg0) <= 1 /\ Len(gen.out) >= 4 * D + 2) =>
              /\ gen.pool_size = 4 * D
              /\ gen'.pool_size = gen.pool_size
              /\ gen'.grows = gen.grows
        /\ pc' = "consume" => gen'.pool_cursor <= gen'.pool_size \div 2
        /\ (pc = "consume" /\ ConsumeTest(gen) /\ gen.pool_size >= 4 * D) =>
              /\ gen.pool_size - gen.pool_use > D
              /\ gen'.tries = gen.tries
      ]_vars

CapacityBounded_witness ==
    /\ Len(arg0) <= 1
    /\ Len(gen.out) >= SIZE_MAX - D
    /\ gen.pool_size = 4 * D
    /\ gen.grows = 4
    /\ gen.shifts >= 30
    /\ gen.pool_use - gen.pool_cursor >= D

\* C23: every step that calls shift_pool, with pool_cursor = c and
\* pool_size = s, has c > s/2 and copies n = s - c bytes from pool[c .. s)
\* to pool[0 .. n): the source ends at the end of the allocation, n <= c
\* so that the two ranges do not overlap, the n bytes arrive unchanged and
\* the bytes from n on are left as they were.
CopySafe ==
    [][ gen'.shifts # gen.shifts =>
            LET c == gen.pool_cursor
                n == gen.pool_size - c
            IN  /\ c > gen.pool_size \div 2
                /\ n >= 0
                /\ c + n = Len(gen.pool)
                /\ n <= c
                /\ \A i \in 1..n : gen'.pool[i] = gen.pool[c + i]
                /\ \A i \in (n + 1)..Len(gen.pool) :
                      gen'.pool[i] = gen.pool[i]
                /\ ~gen.cp_bad
                /\ ~gen'.cp_bad
      ]_vars

CopySafe_witness ==
    /\ pc = "loop"
    /\ gen.pool_cursor = 0
    /\ gen.shifts >= 4
    /\ gen.pool_size = 4 * D
    /\ ~gen.cp_bad
    /\ Len(gen.out) > 6 * D
    /\ Len(gen.out) = gen.out0 + 1

\* C24: the body of the while loop of prepare_pool has never been executed,
\* whatever pool_size the calls so far were entered with (0, or any size
\* up to SIZE_MAX - D); every successful realloc has added exactly D bytes,
\* the first one included; and a call that has returned has left pool_size
\* as it was or made it D larger.
ExactGrowth ==
    /\ gen.iters = 0
    /\ gen.pool_size = gen.size0 + D * gen.grows
    /\ Len(gen.pool) = gen.pool_size
    /\ (gen.room0 # -1 /\ ~gen.aborted) =>
          /\ gen.room0 > D => gen.pool_size = gen.size1
          /\ gen.room0 <= D => gen.pool_size = gen.size1 + D
    /\ gen.aborted => gen.pool_size = gen.size1

ExactGrowth_witness ==
    /\ gen.grows = ManySeeds - 1
    /\ gen.pool_size = SIZE_MAX + 1 - D
    /\ gen.size1 = gen.pool_size - D
    /\ gen.iters = 0
    /\ ~gen.aborted
    /\ pc = "limit"

\* C25: from the end of seeding on, at least D bytes are unread at every
\* fwrite (in the state before it, and as noted at the last one), the byte
\* read lies inside the buffer, at most one digest has been appended since
\* consume was entered, and at least D - 1 bytes are unread after the
\* fwrite and after the shift that may follow it.
LookAhead ==
    /\ pc = "fwrite" =>
          /\ gen.pool_use - gen.pool_cursor >= D
          /\ gen.pool_cursor < Len(gen.pool)
          /\ Len(gen.log) <= gen.log0 + 1
    /\ gen.avail # -1 => gen.avail >= D
    /\ ~gen.rd_oob
    /\ pc = "limit" => gen.pool_use - gen.pool_cursor >= D
    /\ pc \in {"loop", "consume", "shift", "done"} =>
          gen.pool_use - gen.pool_cursor >= D - 1

LookAhead_witness ==
    /\ pc = "loop"
    /\ gen.pool_use - gen.pool_cursor = D - 1
    /\ gen.avail = D
    /\ gen.shifts >= 2
    /\ Len(gen.log) = gen.log0
    /\ Len(gen.out) = gen.out0 + 1

====
